---------------------------- MODULE Spec2Model ----------------------------
(***************************************************************************)
(* Model of the freem collection tools:                                    *)
(*   craw.py             WebsiteCrawler: threaded crawl of numbered         *)
(*                       directory listings into file_structure            *)
(*   freem_downloader.py download_file: retrying streamed file transfer     *)
(*                                                                         *)
(* Text (hrefs, URLs, folder ids) is a sequence of one-character strings.  *)
(* The scheme and host of a URL are abstracted to the single symbol "h";   *)
(* the rest of a URL is its path, character by character.                  *)
(***************************************************************************)
EXTENDS Integers, Sequences, FiniteSets, TLC

(***************************************************************************)
(* Bounds of the model                                                     *)
(***************************************************************************)
\* crawl() submits range(1, 6315); the model submits range(1, RootLimit)
RootLimit == 5
\* worker threads of the crawl pool (max_workers)
NumWorkers == 2
\* largest max_depth handed to the constructor
MaxDepthInput == 2

(***************************************************************************)
(* Text helpers (Python str methods used by the code)                      *)
(***************************************************************************)
Digits == {"0", "1", "2", "3", "4", "5", "6", "7", "8", "9"}

DigitChars == <<"0", "1", "2", "3", "4", "5", "6", "7", "8", "9">>

\* str(i) for i >= 0, as used by f"{i}/"
RECURSIVE Str(_)
Str(i) == IF i < 10 THEN <<DigitChars[i + 1]>>
          ELSE Str(i \div 10) \o <<DigitChars[(i % 10) + 1]>>

Range(s) == {s[i] : i \in DOMAIN s}

\* s.isdigit(): non-empty and digits only
IsDigit(s) == Len(s) > 0 /\ \A i \in DOMAIN s : s[i] \in Digits

\* s.endswith(t), s.startswith(t)
EndsWith(s, t) == Len(s) >= Len(t) /\ SubSeq(s, Len(s) - Len(t) + 1, Len(s)) = t

StartsWith(s, t) == Len(s) >= Len(t) /\ SubSeq(s, 1, Len(t)) = t

\* t in s (substring)
Contains(s, t) ==
    \E i \in 1..(Len(s) - Len(t) + 1) : SubSeq(s, i, i + Len(t) - 1) = t

\* s.rstrip('/'): every trailing separator is removed
RECURSIVE RStripSlash(_)
RStripSlash(s) == IF Len(s) > 0 /\ s[Len(s)] = "/"
                  THEN RStripSlash(SubSeq(s, 1, Len(s) - 1))
                  ELSE s

\* s.split('/')[-1]: what follows the last separator
LastSegment(s) ==
    LET seps == {i \in 1..Len(s) : s[i] = "/"}
        last == IF seps = {} THEN 0
                ELSE CHOOSE i \in seps : \A j \in seps : j <= i
    IN  SubSeq(s, last + 1, Len(s))

\* scheme and host of every URL of the site
Origin == <<"h">>

\* urljoin(url, href) for the references a listing holds: a reference that
\* starts with a separator replaces the whole path, any other one replaces
\* what follows the last separator of url
RECURSIVE DirOf(_)
DirOf(url) == IF Len(url) = 0 \/ url[Len(url)] = "/" THEN url
              ELSE DirOf(SubSeq(url, 1, Len(url) - 1))

urljoin(url, href) == IF StartsWith(href, <<"/">>) THEN Origin \o href
                      ELSE DirOf(url) \o href

(***************************************************************************)
(* WebsiteCrawler: pure helpers                                            *)
(***************************************************************************)
IllegalChars == {"\\", "/", "*", "?", ":", "\"", "<", ">", "|"}

clean_name(name) ==
    [i \in DOMAIN name |-> IF name[i] \in IllegalChars THEN "_" ELSE name[i]]

is_valid_folder(folder_name) == IsDigit(folder_name)

SortMarkers == {<<"C", "=", "N">>, <<"C", "=", "M">>,
                <<"C", "=", "S">>, <<"C", "=", "D">>}

is_valid_file(href) ==
    /\ ~(StartsWith(href, <<"?">>) \/ EndsWith(href, <<"/">>))
    /\ href \notin {<<".", ".", "/">>, <<".", "/">>}
    /\ ~(\E m \in SortMarkers : Contains(href, m))

\* the items parse_directory builds from the anchors of one page, in order;
\* an anchor is [href, size, date] (the text of the cells that follow it)
RECURSIVE ParseAnchors(_, _)
ParseAnchors(url, anchors) ==
    IF anchors = <<>> THEN <<>>
    ELSE LET a == Head(anchors)
             href == a.href
             rest == ParseAnchors(url, Tail(anchors))
         IN  IF href = <<>> THEN rest
             ELSE IF EndsWith(href, <<"/">>)
             THEN IF is_valid_folder(RStripSlash(href))
                  THEN <<[type |-> "folder", name |-> RStripSlash(href),
                          url |-> urljoin(url, href), size |-> "",
                          date |-> "", parent |-> url]>> \o rest
                  ELSE rest
             ELSE IF is_valid_file(href)
             THEN <<[type |-> "file", name |-> clean_name(href),
                     url |-> urljoin(url, href), size |-> a.size,
                     date |-> a.date, parent |-> url]>> \o rest
             ELSE rest


(***************************************************************************)
(* The remote site: a directory URL answers with a page of anchors, or the *)
(* fetch fails (connection error, timeout, HTTP error status).  A URL the  *)
(* site does not hold answers 404, which raise_for_status() turns into a   *)
(* failure.                                                                *)
(***************************************************************************)
base_url == Origin \o <<"/">>

RootUrl(i) == urljoin(base_url, Str(i) \o <<"/">>)

Anchor(href, size) == [href |-> href, size |-> size, date |-> ""]

Page(anchors) == [status |-> "ok", anchors |-> anchors]

Failure == [status |-> "error", anchors |-> <<>>]

SortLink == <<"?", "C", "=", "N", ";", "O", "=", "D">>

ParentLink == <<".", ".", "/">>

FileA == <<"a", ".", "t", "x", "t">>

FileB == <<"b", ".", "b", "i", "n">>

FileC == <<"c", ".", "t", "x", "t">>

\* folders 1/ (a.txt), 2/ (empty), 3/ (b.bin and 30/), 3/30/ (c.txt)
TreeScenario ==
    (RootUrl(1) :> Page(<<Anchor(SortLink, ""), Anchor(ParentLink, ""),
                          Anchor(FileA, "10")>>))
 @@ (RootUrl(2) :> Page(<<Anchor(SortLink, ""), Anchor(ParentLink, "")>>))
 @@ (RootUrl(3) :> Page(<<Anchor(SortLink, ""), Anchor(ParentLink, ""),
                          Anchor(FileB, "500"), Anchor(<<"3", "0", "/">>, "")>>))
 @@ (urljoin(RootUrl(3), <<"3", "0", "/">>) :> Page(<<Anchor(FileC, "")>>))

\* the same site with the subfolder of 3/ named 4/, a number the scan of the
\* root range also asks for (root folder 4/ does not exist)
TreeScenarioInRange ==
    (RootUrl(1) :> Page(<<Anchor(SortLink, ""), Anchor(ParentLink, ""),
                          Anchor(FileA, "10")>>))
 @@ (RootUrl(2) :> Page(<<Anchor(SortLink, ""), Anchor(ParentLink, "")>>))
 @@ (RootUrl(3) :> Page(<<Anchor(SortLink, ""), Anchor(ParentLink, ""),
                          Anchor(FileB, "500"), Anchor(<<"4", "/">>, "")>>))
 @@ (urljoin(RootUrl(3), <<"4", "/">>) :> Page(<<Anchor(FileC, "")>>))

\* folder 1/2/ and root folder 2/ end in the same digit segment
TreeCollide ==
    (RootUrl(1) :> Page(<<Anchor(<<"2", "/">>, ""), Anchor(FileA, "10")>>))
 @@ (urljoin(RootUrl(1), <<"2", "/">>) :> Page(<<Anchor(FileC, "")>>))
 @@ (RootUrl(2) :> Page(<<Anchor(FileB, "500")>>))

\* folder 1/2/ is linked twice and its fetch fails, as does root folder 3/
TreeFailing ==
    (RootUrl(1) :> Page(<<Anchor(<<"2", "/">>, ""), Anchor(<<"2", "/">>, ""),
                          Anchor(<<"4", "/">>, ""), Anchor(FileA, "10")>>))
 @@ (urljoin(RootUrl(1), <<"2", "/">>) :> Failure)
 @@ (urljoin(RootUrl(1), <<"4", "/">>) :> Page(<<Anchor(FileC, "")>>))
 @@ (RootUrl(3) :> Failure)

Trees == {TreeScenario, TreeScenarioInRange, TreeCollide, TreeFailing}

(***************************************************************************)
(* State                                                                   *)
(***************************************************************************)
VARIABLES
    remote,           \* the site: directory URL -> page or failure
    max_depth,        \* WebsiteCrawler.max_depth
    phase,            \* crawl(): "init", "running" (pool open), "done"
    queue,            \* work queue of the pool: root URLs not yet started
    stack,            \* per worker thread: call stack of crawl_folder frames
    file_structure,   \* WebsiteCrawler.file_structure
    visited_folders,  \* WebsiteCrawler.visited_folders
    fetches,          \* history: URL -> number of session.get calls on it
    created,          \* history: URLs whose crawl_folder stored a record
    completed,        \* history: URLs whose crawl_folder ran its loop to the end
    run,              \* 1: first execution of the program, 2: second
    firstInventory,   \* file_structure at the end of the first execution
    disk,             \* local file system: path -> NoFile or the bytes held
    remoteBody,       \* the chunks iter_content yields for the file's URL
    dl,               \* per download_file call: its locals and position
    shelf,            \* the site as crawl_from_number sees it: number -> answer
    scan              \* crawl_from_number: its locals and position

crawlVars == <<remote, max_depth, phase, queue, stack, file_structure,
               visited_folders, fetches, created, completed, run,
               firstInventory>>

scanVars == <<shelf, scan>>

dlVars == <<disk, remoteBody, dl, scanVars>>

vars == <<crawlVars, dlVars>>

Workers == 1..NumWorkers

Top(w) == stack[w][Len(stack[w])]

Pop(st) == SubSeq(st, 1, Len(st) - 1)

SetTop(st, f) == [st EXCEPT ![Len(st)] = f]

Frame(url, depth) ==
    [url |-> url, depth |-> depth, pc |-> "cf_enter", items |-> <<>>, i |-> 0]

\* folder_id = folder_url.rstrip('/').split('/')[-1]
FolderId(folder_url) == LastSegment(RStripSlash(folder_url))

FetchCount(url) == IF url \in DOMAIN fetches THEN fetches[url] ELSE 0

Response(url) == IF url \in DOMAIN remote THEN remote[url] ELSE Failure

NewRecord(folder_url) == [url |-> folder_url, files |-> <<>>, subfolders |-> <<>>]

FileRecord(item) == [original_name |-> item.name, url |-> item.url,
                     size |-> item.size, date |-> item.date]

\* the depth test left out
NeverTooDeep(depth) == FALSE

\* the tests of crawl_folder and parse_directory
TooDeep(depth) == depth > max_depth

AlreadyRecorded(folder_id) == folder_id \in DOMAIN file_structure

\* the membership test of line 63 left out
NeverVisited(url) == FALSE

AlreadyVisited(url) == url \in visited_folders

\* the "not items" return of line 141 left out: an empty folder is recorded
RetainEmpty(items) == FALSE

NoItems(items) == items = <<>>

\* no except clause: the exception leaves parse_directory and every
\* crawl_folder frame above it, and ends the worker's task
FetchRaises(st) == <<>>

\* parse_directory's except clause: the failure is logged, [] is returned and
\* crawl_folder returns on "not items"; the caller's frame goes on
FetchFailed(st) == Pop(st)

(***************************************************************************)
(* WebsiteCrawler.crawl and the worker threads of its pool                 *)
(***************************************************************************)
\* crawl(): the pool is opened and crawl_folder(urljoin(base_url, f"{i}/"))
\* is submitted for every i of the range, in order; the pool's work queue is
\* first in, first out
Crawl ==
    /\ phase = "init"
    /\ phase' = "running"
    /\ queue' = [i \in 1..(RootLimit - 1) |-> RootUrl(i)]
    /\ UNCHANGED <<remote, max_depth, stack, file_structure, visited_folders,
                   fetches, created, completed, run, firstInventory, dlVars>>

\* an idle worker thread takes the next submitted call: crawl_folder(url, 0)
TakeTask(w) ==
    /\ phase = "running"
    /\ stack[w] = <<>>
    /\ queue # <<>>
    /\ stack' = [stack EXCEPT ![w] = <<Frame(Head(queue), 0)>>]
    /\ queue' = Tail(queue)
    /\ UNCHANGED <<remote, max_depth, phase, file_structure, visited_folders,
                   fetches, created, completed, run, firstInventory, dlVars>>

\* crawl_folder, lines 128-140: the three early returns, else the call of
\* parse_directory (whose own depth test repeats the one just passed)
CrawlFolderEnter(w) ==
    /\ stack[w] # <<>>
    /\ Top(w).pc = "cf_enter"
    /\ IF \/ TooDeep(Top(w).depth)
          \/ ~IsDigit(FolderId(Top(w).url))
          \/ AlreadyRecorded(FolderId(Top(w).url))
       THEN stack' = [stack EXCEPT ![w] = Pop(@)]
       ELSE stack' = [stack EXCEPT ![w] = SetTop(@, [Top(w) EXCEPT !.pc = "pd_check"])]
    /\ UNCHANGED <<remote, max_depth, phase, queue, file_structure,
                   visited_folders, fetches, created, completed, run,
                   firstInventory, dlVars>>

\* parse_directory, line 63: a visited URL yields [], and crawl_folder returns
ParseCheckVisited(w) ==
    /\ stack[w] # <<>>
    /\ Top(w).pc = "pd_check"
    /\ IF AlreadyVisited(Top(w).url)
       THEN stack' = [stack EXCEPT ![w] = Pop(@)]
       ELSE stack' = [stack EXCEPT ![w] = SetTop(@, [Top(w) EXCEPT !.pc = "pd_add"])]
    /\ UNCHANGED <<remote, max_depth, phase, queue, file_structure,
                   visited_folders, fetches, created, completed, run,
                   firstInventory, dlVars>>

\* parse_directory, line 66
ParseMarkVisited(w) ==
    /\ stack[w] # <<>>
    /\ Top(w).pc = "pd_add"
    /\ visited_folders' = visited_folders \cup {Top(w).url}
    /\ stack' = [stack EXCEPT ![w] = SetTop(@, [Top(w) EXCEPT !.pc = "pd_get"])]
    /\ UNCHANGED <<remote, max_depth, phase, queue, file_structure,
                   fetches, created, completed, run, firstInventory, dlVars>>

\* parse_directory, lines 69-124, and crawl_folder's "if not items: return"
ParseFetch(w) ==
    /\ stack[w] # <<>>
    /\ Top(w).pc = "pd_get"
    /\ fetches' = [u \in DOMAIN fetches \cup {Top(w).url} |->
                     IF u = Top(w).url THEN FetchCount(u) + 1 ELSE fetches[u]]
    /\ LET r == Response(Top(w).url)
           items == ParseAnchors(Top(w).url, r.anchors)
       IN  IF r.status # "ok"
           THEN stack' = [stack EXCEPT ![w] = FetchFailed(@)]
           ELSE IF NoItems(items)
           THEN stack' = [stack EXCEPT ![w] = Pop(@)]
           ELSE stack' = [stack EXCEPT ![w] =
                            SetTop(@, [Top(w) EXCEPT !.pc = "cf_init", !.items = items])]
    /\ UNCHANGED <<remote, max_depth, phase, queue, file_structure,
                   visited_folders, created, completed, run,
                   firstInventory, dlVars>>

\* crawl_folder, lines 145-149: the record is stored under folder_id
CrawlFolderInit(w) ==
    /\ stack[w] # <<>>
    /\ Top(w).pc = "cf_init"
    /\ LET id == FolderId(Top(w).url)
       IN  file_structure' =
             [k \in DOMAIN file_structure \cup {id} |->
                IF k = id THEN NewRecord(Top(w).url) ELSE file_structure[k]]
    /\ created' = created \cup {Top(w).url}
    /\ stack' = [stack EXCEPT ![w] = SetTop(@, [Top(w) EXCEPT !.pc = "cf_loop", !.i = 1])]
    /\ UNCHANGED <<remote, max_depth, phase, queue, visited_folders,
                   fetches, completed, run, firstInventory, dlVars>>

\* crawl_folder, lines 152-166: one iteration of the loop over items.  The
\* record appended to is the one file_structure holds under folder_id now.
CrawlFolderItem(w) ==
    /\ stack[w] # <<>>
    /\ Top(w).pc = "cf_loop"
    /\ Top(w).i <= Len(Top(w).items)
    /\ LET f == Top(w)
           id == FolderId(f.url)
           item == f.items[f.i]
           next == [f EXCEPT !.i = f.i + 1]
       IN  IF item.type = "folder"
           THEN /\ file_structure' =
                     [file_structure EXCEPT ![id].subfolders = Append(@, item.name)]
                /\ stack' = [stack EXCEPT ![w] =
                               Append(SetTop(@, next), Frame(item.url, f.depth + 1))]
           ELSE /\ file_structure' =
                     [file_structure EXCEPT ![id].files = Append(@, FileRecord(item))]
                /\ stack' = [stack EXCEPT ![w] = SetTop(@, next)]
    /\ UNCHANGED <<remote, max_depth, phase, queue, visited_folders,
                   fetches, created, completed, run, firstInventory, dlVars>>

\* crawl_folder: the loop is over, the call returns
CrawlFolderReturn(w) ==
    /\ stack[w] # <<>>
    /\ Top(w).pc = "cf_loop"
    /\ Top(w).i > Len(Top(w).items)
    /\ stack' = [stack EXCEPT ![w] = Pop(@)]
    /\ completed' = completed \cup {Top(w).url}
    /\ UNCHANGED <<remote, max_depth, phase, queue, file_structure,
                   visited_folders, fetches, created, run, firstInventory, dlVars>>

\* crawl(), lines 182-189: every future has completed and the pool is closed
CrawlJoin ==
    /\ phase = "running"
    /\ queue = <<>>
    /\ \A w \in Workers : stack[w] = <<>>
    /\ phase' = "done"
    /\ UNCHANGED <<remote, max_depth, queue, stack, file_structure,
                   visited_folders, fetches, created, completed, run,
                   firstInventory, dlVars>>

\* the program is run a second time against the same site: main() builds a
\* new WebsiteCrawler
Rerun ==
    /\ phase = "done"
    /\ run = 1
    /\ run' = 2
    /\ firstInventory' = file_structure
    /\ phase' = "init"
    /\ file_structure' = <<>>
    /\ visited_folders' = {}
    /\ fetches' = <<>>
    /\ created' = {}
    /\ completed' = {}
    /\ UNCHANGED <<remote, max_depth, queue, stack, dlVars>>

\* no download_file call exists during a crawl
IdleTransfers == <<>>

\* crawl_from_number is not running
IdleScan == [pc |-> "idle"]

InitCrawl ==
    /\ remote \in Trees
    /\ max_depth \in 0..MaxDepthInput
    /\ phase = "init"
    /\ queue = <<>>
    /\ stack = [w \in Workers |-> <<>>]
    /\ file_structure = <<>>
    /\ visited_folders = {}
    /\ fetches = <<>>
    /\ created = {}
    /\ completed = {}
    /\ run = 1
    /\ firstInventory = <<>>
    /\ disk = <<>>
    /\ remoteBody = <<>>
    /\ dl = IdleTransfers
    /\ shelf = <<>>
    /\ scan = IdleScan

NextCrawl ==
    \/ Crawl
    \/ \E w \in Workers : TakeTask(w)
    \/ \E w \in Workers : CrawlFolderEnter(w)
    \/ \E w \in Workers : ParseCheckVisited(w)
    \/ \E w \in Workers : ParseMarkVisited(w)
    \/ \E w \in Workers : ParseFetch(w)
    \/ \E w \in Workers : CrawlFolderInit(w)
    \/ \E w \in Workers : CrawlFolderItem(w)
    \/ \E w \in Workers : CrawlFolderReturn(w)
    \/ CrawlJoin
    \/ Rerun

SpecCrawl == InitCrawl /\ [][NextCrawl]_vars

(***************************************************************************)
(* Properties of the crawl                                                 *)
(***************************************************************************)
IsPrefix(s, t) == Len(s) <= Len(t) /\ SubSeq(t, 1, Len(s)) = s

\* number of separators of a URL; a root folder URL has two
RECURSIVE SlashCount(_)
SlashCount(s) == IF s = <<>> THEN 0
                 ELSE (IF Head(s) = "/" THEN 1 ELSE 0) + SlashCount(Tail(s))

UrlDepth(url) == SlashCount(url) - 2

ItemsOf(url) == ParseAnchors(url, Response(url).anchors)

FileItemsOf(url) == {ItemsOf(url)[i] : i \in {j \in DOMAIN ItemsOf(url) :
                                              ItemsOf(url)[j].type = "file"}}

FolderItemsOf(url) == {ItemsOf(url)[i] : i \in {j \in DOMAIN ItemsOf(url) :
                                                ItemsOf(url)[j].type = "folder"}}

\* the fetches made so far for URLs whose folder id is k
FetchesForKey(k) == {<<u, fetches[u]>> : u \in {v \in DOMAIN fetches : FolderId(v) = k}}

\* a sequence up to the order of its elements
SeqAsBag(s) == [x \in Range(s) |-> Cardinality({i \in DOMAIN s : s[i] = x})]

\* an inventory up to the order of the files and subfolders of each record
Canonical(inv) == [k \in DOMAIN inv |-> [url |-> inv[k].url,
                                          files |-> SeqAsBag(inv[k].files),
                                          subfolders |-> SeqAsBag(inv[k].subfolders)]]

Folder12 == urljoin(RootUrl(1), <<"2", "/">>)

Folder14 == urljoin(RootUrl(1), <<"4", "/">>)

\* the URLs of the crawl_folder calls worker w is inside
UrlsOnStack(w) == {stack[w][i].url : i \in DOMAIN stack[w]}

\* no URL is ever inside crawl_folder calls of two workers at once: a root URL
\* is submitted once, a child URL is called by the thread that fetched its
\* parent
NoConcurrentCallsForOneUrl ==
    \A v, w \in Workers : v # w => UrlsOnStack(v) \cap UrlsOnStack(w) = {}

\* C1: during one crawl run no directory URL is fetched more than once
C1_AtMostOneFetchPerUrl == \A u \in DOMAIN fetches : fetches[u] <= 1

\* C1 witness: a further crawl_folder call for a URL that was already fetched
\* stands at the membership test of the visited set
C1_Witness ==
    \E w \in Workers :
        /\ stack[w] # <<>>
        /\ Top(w).pc = "pd_check"
        /\ Top(w).url \in visited_folders
        /\ FetchCount(Top(w).url) = 1

\* C2: first writer wins: within a run, once file_structure holds a record
\* under a key, no step replaces that record (its url stays, its lists only
\* grow) and no step fetches a URL of that key
C2_FirstWriterWins ==
    [][(run' = run) =>
         \A k \in DOMAIN file_structure :
            /\ k \in DOMAIN file_structure'
            /\ file_structure'[k].url = file_structure[k].url
            /\ IsPrefix(file_structure[k].files, file_structure'[k].files)
            /\ IsPrefix(file_structure[k].subfolders, file_structure'[k].subfolders)
            /\ FetchesForKey(k)' = FetchesForKey(k)]_vars

\* C3: no lost update: when the crawl has finished, every file entry of a
\* listing whose fetch led to a record being stored is in the files of the
\* record under that folder's key
C3_NoLostUpdate ==
    phase = "done" =>
        \A u \in created :
            \A item \in FileItemsOf(u) :
                /\ FolderId(u) \in DOMAIN file_structure
                /\ FileRecord(item) \in Range(file_structure[FolderId(u)].files)

\* C8: the site 1/ (a.txt), 2/ (empty), 3/ (b.bin, 30/), 3/30/ (c.txt) crawled
\* with max_depth = 2 ends with the keys 1, 3 and 30, without folder 2, and
\* with "30" the subfolder list of folder 3; the same with the subfolder
\* named 4, whose number the root scan also asks for
C8_ScenarioInventory ==
    (phase = "done" /\ max_depth = 2) =>
        /\ remote = TreeScenario =>
             /\ DOMAIN file_structure = {<<"1">>, <<"3">>, <<"3", "0">>}
             /\ file_structure[<<"3">>].subfolders = << <<"3", "0">> >>
        /\ remote = TreeScenarioInRange =>
             /\ DOMAIN file_structure = {<<"1">>, <<"3">>, <<"4">>}
             /\ file_structure[<<"3">>].subfolders = << <<"4">> >>

\* C8 witness: the crawl of the scenario's site with max_depth = 2 has ended
C8_Witness == phase = "done" /\ max_depth = 2 /\ remote = TreeScenario

\* C9: a second complete run against the unchanged site ends with the same
\* inventory as the first, up to ordering
C9_SameInventoryTwice ==
    (run = 2 /\ phase = "done") =>
        Canonical(file_structure) = Canonical(firstInventory)

\* C10: a failed fetch is contained: the URL is in the visited set, was
\* fetched once, and no record was stored for it; when the crawl has ended
\* every root folder has been handled and every folder that stored a record
\* has run the loop over its items to the end
C10_FailureContained ==
    /\ \A u \in DOMAIN fetches :
          Response(u).status = "error" =>
              /\ u \in visited_folders
              /\ fetches[u] = 1
              /\ u \notin created
              /\ \A k \in DOMAIN file_structure : file_structure[k].url # u
    /\ phase = "done" =>
          /\ \A i \in 1..(RootLimit - 1) :
                \/ RootUrl(i) \in visited_folders
                \/ FolderId(RootUrl(i)) \in DOMAIN file_structure
          /\ created \subseteq completed
          /\ \A u \in created :
                \A c \in FolderItemsOf(u) :
                    \/ UrlDepth(c.url) > max_depth
                    \/ c.url \in visited_folders
                    \/ FolderId(c.url) \in DOMAIN file_structure

\* C10 witness: the crawl has ended, the fetch of 1/2/ failed, and its parent
\* 1/ went on to its sibling 1/4/ and finished, as did the other root folders
C10_Witness ==
    /\ phase = "done"
    /\ remote = TreeFailing
    /\ FetchCount(Folder12) = 1
    /\ FetchCount(RootUrl(3)) = 1
    /\ Folder14 \in created
    /\ RootUrl(1) \in completed

(***************************************************************************)
(* freem_downloader.download_file                                          *)
(*                                                                         *)
(* A file's content is a sequence of bytes; the remote body arrives as a   *)
(* sequence of chunks (iter_content), some of which may be empty.          *)
(***************************************************************************)
RETRIES == 3

\* longest remote body, in chunks
MaxChunks == 2

\* most calls of download_file made for one path, one after the other
MaxCalls == 2

\* what a path holds when no file is there: told from every content by a
\* value that is no byte
NoFile == <<-1>>

Chunks == {<<>>, <<1>>, <<2>>}

Bodies == UNION {[1..n -> Chunks] : n \in 0..MaxChunks}

\* what a path may hold before the call: nothing, an empty file, other bytes
InitialContents == {NoFile, <<>>, <<9>>}

Paths == {"p"}

Transfers == {"t1"}

RECURSIVE Flatten(_)
Flatten(body) == IF body = <<>> THEN <<>> ELSE Head(body) \o Flatten(Tail(body))

\* the existence test never answers yes
NeverExists(path) == FALSE

\* os.path.exists(local_path)
PathExists(path) == disk[path] # NoFile

\* the file opened for appending instead: what the path holds is kept
OpenForAppend(content) == IF content = NoFile THEN <<>> ELSE content

\* open(local_path, 'wb'): the file is created, or truncated to nothing
OpenForWrite(content) == <<>>

RECURSIVE Zeros(_)
Zeros(n) == IF n = 0 THEN <<>> ELSE <<0>> \o Zeros(n - 1)

\* f.write(chunk) through a handle that stands at offset: the bytes replace
\* what the file holds from there on; a gap left by another handle's
\* truncation reads as zero bytes
WriteAt(content, offset, chunk) ==
    LET kept == IF Len(content) < offset THEN Len(content) ELSE offset
        after == offset + Len(chunk)
    IN  SubSeq(content, 1, kept) \o Zeros(offset - kept) \o chunk
            \o SubSeq(content, after + 1, Len(content))

\* lines 57-58: "if chunk: f.write(chunk)"
WriteChunk(content, offset, chunk) ==
    IF chunk # <<>> THEN WriteAt(content, offset, chunk) ELSE content

\* an exception that the except clause does not catch leaves download_file
ExceptionEscapes(d) == [d EXCEPT !.pc = "raised"]

\* lines 84-86 and the loop head: the exception is caught and printed, the
\* call sleeps a second, and the next attempt starts unless RETRIES attempts
\* were made, in which case line 88 returns False
ExceptionCaught(d) ==
    IF d.attempt + 1 < RETRIES
    THEN [d EXCEPT !.attempt = @ + 1, !.pc = "get"]
    ELSE [d EXCEPT !.attempt = @ + 1, !.pc = "done", !.result = "False"]

\* a call download_file(session, url, local_path) about to start; offset is
\* the position of the call's file handle.  History: before is what the path
\* held at the call, requests the session.get calls made, spoiled whether a
\* failed attempt had written bytes, calls the number of calls made for the
\* path so far, initial what the path held before the first of them
NewTransfer(path) ==
    [pc |-> "start", path |-> path, url |-> <<>>, attempt |-> 0, pos |-> 0,
     offset |-> 0, result |-> "None", before |-> disk[path], requests |-> 0,
     spoiled |-> FALSE, calls |-> 1, initial |-> disk[path]]

\* lines 41-45: an existing file is skipped, else the first attempt starts
DlStart(t) ==
    /\ dl[t].pc = "start"
    /\ IF PathExists(dl[t].path)
       THEN dl' = [dl EXCEPT ![t].pc = "done", ![t].result = "True"]
       ELSE IF RETRIES > 0
       THEN dl' = [dl EXCEPT ![t].pc = "get"]
       ELSE dl' = [dl EXCEPT ![t].pc = "done", ![t].result = "False"]
    /\ UNCHANGED <<disk, remoteBody, crawlVars, scanVars>>

\* lines 51-53: session.get(url, stream=True) and raise_for_status(); the
\* request fails (connection, timeout), answers an error status, or succeeds
DlGet(t) ==
    /\ dl[t].pc = "get"
    /\ \E outcome \in {"ok", "network error", "error status"} :
          LET d == [dl[t] EXCEPT !.requests = @ + 1]
          IN  IF outcome = "ok"
              THEN dl' = [dl EXCEPT ![t] = [d EXCEPT !.pc = "open"]]
              ELSE dl' = [dl EXCEPT ![t] = ExceptionCaught(d)]
    /\ UNCHANGED <<disk, remoteBody, crawlVars, scanVars>>

\* line 55: open(local_path, 'wb') succeeds, the handle standing at the end
\* of what the open left of the file, or raises OSError
DlOpen(t) ==
    /\ dl[t].pc = "open"
    /\ \E opened \in BOOLEAN :
          IF opened
          THEN /\ disk' = [disk EXCEPT ![dl[t].path] = OpenForWrite(@)]
               /\ dl' = [dl EXCEPT ![t].pc = "stream", ![t].pos = 0,
                                   ![t].offset = Len(OpenForWrite(disk[dl[t].path]))]
          ELSE /\ disk' = disk
               /\ dl' = [dl EXCEPT ![t] = ExceptionCaught(@)]
    /\ UNCHANGED <<remoteBody, crawlVars, scanVars>>

\* lines 56-59: the next chunk arrives and, if not empty, is written; or the
\* stream breaks or the write fails, and the file is closed as it is
DlChunk(t) ==
    /\ dl[t].pc = "stream"
    /\ dl[t].pos < Len(remoteBody)
    /\ \E arrived \in BOOLEAN :
          IF arrived
          THEN /\ disk' = [disk EXCEPT ![dl[t].path] =
                                WriteChunk(@, dl[t].offset, remoteBody[dl[t].pos + 1])]
               /\ dl' = [dl EXCEPT ![t].pos = @ + 1,
                                   ![t].offset = @ + Len(remoteBody[dl[t].pos + 1])]
          ELSE /\ disk' = disk
               /\ dl' = [dl EXCEPT ![t] = ExceptionCaught(
                            [@ EXCEPT !.spoiled = @ \/ disk[dl[t].path] # <<>>])]
    /\ UNCHANGED <<remoteBody, crawlVars, scanVars>>

\* lines 75-82: the body is over, the file is closed, True is returned
DlFinish(t) ==
    /\ dl[t].pc = "stream"
    /\ dl[t].pos = Len(remoteBody)
    /\ dl' = [dl EXCEPT ![t].pc = "done", ![t].result = "True"]
    /\ UNCHANGED <<disk, remoteBody, crawlVars, scanVars>>

\* download_file is called again for the same url and path, as a later run
\* of the program does, after the call before has returned
DlAgain(t) ==
    /\ dl[t].pc = "done"
    /\ dl[t].calls < MaxCalls
    /\ dl' = [dl EXCEPT ![t] = [NewTransfer(dl[t].path) EXCEPT
                                   !.url = dl[t].url,
                                   !.calls = dl[t].calls + 1,
                                   !.initial = dl[t].initial]]
    /\ UNCHANGED <<disk, remoteBody, crawlVars, scanVars>>

InitDownload ==
    /\ disk \in [Paths -> InitialContents]
    /\ remoteBody \in Bodies
    /\ dl = [t \in Transfers |-> NewTransfer("p")]
    /\ shelf = <<>>
    /\ scan = IdleScan
    /\ remote = <<>>
    /\ max_depth = 0
    /\ phase = "idle"
    /\ queue = <<>>
    /\ stack = [w \in Workers |-> <<>>]
    /\ file_structure = <<>>
    /\ visited_folders = {}
    /\ fetches = <<>>
    /\ created = {}
    /\ completed = {}
    /\ run = 1
    /\ firstInventory = <<>>

NextDownload ==
    \/ \E t \in DOMAIN dl : DlStart(t)
    \/ \E t \in DOMAIN dl : DlGet(t)
    \/ \E t \in DOMAIN dl : DlOpen(t)
    \/ \E t \in DOMAIN dl : DlChunk(t)
    \/ \E t \in DOMAIN dl : DlFinish(t)
    \/ \E t \in DOMAIN dl : DlAgain(t)

SpecDownload == InitDownload /\ [][NextDownload]_vars

(***************************************************************************)
(* Properties of download_file                                             *)
(***************************************************************************)
Returned(t) == dl[t].pc = "done"

\* C4: the path held no file at the call and every attempt failed: the call
\* returns False and the path holds no file
C4_NoFileLeftAfterFailure ==
    \A t \in DOMAIN dl :
        (Returned(t) /\ dl[t].before = NoFile /\ dl[t].result = "False") =>
            disk[dl[t].path] = NoFile

\* C5: the path held no file at the call and an attempt succeeded: the call
\* returns True and the file holds exactly the body of that attempt
C5_FullBodyOnSuccess ==
    \A t \in DOMAIN dl :
        /\ (dl[t].before = NoFile /\ dl[t].pc = "stream"
              /\ dl[t].pos = Len(remoteBody)) =>
                 disk[dl[t].path] = Flatten(remoteBody)
        /\ (Returned(t) /\ dl[t].before = NoFile /\ dl[t].requests > 0
              /\ dl[t].attempt < RETRIES) =>
                 /\ dl[t].result = "True"
                 /\ disk[dl[t].path] = Flatten(remoteBody)
        /\ (Returned(t) /\ dl[t].before = NoFile /\ dl[t].result = "True") =>
                 disk[dl[t].path] = Flatten(remoteBody)

\* C5 witness: two attempts failed, one of them after writing bytes, and the
\* third delivered a body of two non-empty chunks
C5_Witness ==
    \E t \in DOMAIN dl :
        /\ Returned(t)
        /\ dl[t].before = NoFile
        /\ dl[t].result = "True"
        /\ dl[t].attempt = 2
        /\ dl[t].spoiled
        /\ Len(Flatten(remoteBody)) >= 2

\* C6: the path held a file at the call: no request is ever made, the file
\* stays as it was, and the call returns True
C6_ExistingFileSkipped ==
    \A t \in DOMAIN dl :
        dl[t].before # NoFile =>
            /\ dl[t].requests = 0
            /\ disk[dl[t].path] = dl[t].before
            /\ dl[t].pc \in {"start", "done"}
            /\ Returned(t) => dl[t].result = "True"

\* C6 witness: the call has returned for a path that held bytes
C6_Witness ==
    \E t \in DOMAIN dl :
        Returned(t) /\ dl[t].before = <<9>> /\ dl[t].result = "True"

\* C7: a call makes at most RETRIES requests, no exception leaves it, and it
\* ends by returning True or False
C7_BoundedRequestsNoRaise ==
    \A t \in DOMAIN dl :
        /\ dl[t].requests <= RETRIES
        /\ dl[t].pc # "raised"
        /\ Returned(t) => dl[t].result \in {"True", "False"}
        /\ (Returned(t) /\ dl[t].result = "False") => dl[t].requests = RETRIES

\* C7 witness: the call has returned False after a network failure, an
\* error status or a file-system failure ended its last attempt
C7_Witness ==
    \E t \in DOMAIN dl :
        Returned(t) /\ dl[t].result = "False" /\ dl[t].requests = RETRIES

(***************************************************************************)
(* freem_downloader.crawl_from_number                                      *)
(*                                                                         *)
(* A local path is <<number, name>>: os.path.join(save_dir, str(number),   *)
(* name); the directory of a number is the path with the empty name.       *)
(***************************************************************************)
\* the model's scan stops asking beyond this directory number
MaxDir == 2

\* threads of the download pool; the code's MAX_WORKERS is 12
NumDlWorkers == 2

\* what a directory path holds once os.makedirs made it
Directory == <<-2>>

DirPath(n) == <<n, <<>>>>

\* urlparse(file_url).path: the URL up to its query or fragment
UrlPath(url) ==
    LET marks == {i \in 1..Len(url) : url[i] \in {"?", "#"}}
        first == IF marks = {} THEN Len(url) + 1
                 ELSE CHOOSE i \in marks : \A j \in marks : i <= j
    IN  SubSeq(url, 1, first - 1)

\* local_path, lines 128-129
LocalPath(n, file_url) == <<n, LastSegment(UrlPath(file_url))>>

\* lines 110-114: the file URLs taken from the anchors of a listing
RECURSIVE DownloadLinks(_, _)
DownloadLinks(dir_url, anchors) ==
    IF anchors = <<>> THEN <<>>
    ELSE LET href == Head(anchors).href
             rest == DownloadLinks(dir_url, Tail(anchors))
         IN  IF /\ href # <<>>
                /\ ~StartsWith(href, <<".", ".", "/">>)
                /\ ~StartsWith(href, <<".", "/">>)
                /\ ~EndsWith(href, <<"/">>)
             THEN <<urljoin(dir_url, href)>> \o rest
             ELSE rest

\* the answers of the site for one directory number: the HEAD probe answers
\* 200 ("ok"), another status ("missing") or fails ("error"); the GET
\* answers a page or fails
Listing(anchors) == [head |-> "ok", get |-> "ok", anchors |-> anchors]

Missing == [head |-> "missing", get |-> "error", anchors |-> <<>>]

ProbeFails == [head |-> "error", get |-> "error", anchors |-> <<>>]

GetFails == [head |-> "ok", get |-> "error", anchors |-> <<>>]

ShelfAt(n) == IF n \in DOMAIN shelf THEN shelf[n] ELSE Missing

\* directory 1 lists three files, directory 2 does not exist
ShelfPlain ==
    1 :> Listing(<<Anchor(ParentLink, ""), Anchor(FileA, "10"),
                   Anchor(FileB, "500"), Anchor(FileC, "")>>)

\* directory 1 is an empty listing, the listing of directory 2 cannot be got
ShelfSparse ==
    (1 :> Listing(<<Anchor(ParentLink, "")>>)) @@ (2 :> GetFails)

\* the probe of directory 1 fails, directory 2 lists one file
ShelfFlaky ==
    (1 :> ProbeFails) @@ (2 :> Listing(<<Anchor(FileA, "10")>>))

\* directory 1 is a listing as a server writes it, with a sort link
ShelfSorted ==
    1 :> Listing(<<Anchor(SortLink, ""), Anchor(ParentLink, ""),
                   Anchor(FileA, "10")>>)

\* directory 1 links the same file twice
ShelfTwice ==
    1 :> Listing(<<Anchor(FileA, "10"), Anchor(FileA, "10")>>)

Shelves == {ShelfPlain, ShelfSparse, ShelfFlaky, ShelfSorted, ShelfTwice}

\* the names a local path of the model may end in
ScanNames == {<<>>, FileA, FileB, FileC}

\* a download_file call submitted to the pool and not yet taken by a thread
Submitted(url, path) == [NewTransfer(path) EXCEPT !.pc = "queued", !.url = url]

\* the submitted calls that have not returned
Unfinished == {t \in DOMAIN dl : dl[t].pc # "done"}

\* the calls a thread of the pool of directory n is running
Running(n) == {t \in DOMAIN dl : t[1] = n /\ dl[t].pc \notin {"queued", "done"}}

\* the pool is closed without waiting for its calls
PoolNotAwaited == TRUE

\* lines 125-134: the end of the "with ThreadPoolExecutor" block waits for
\* every submitted call (shutdown(wait=True))
PoolIdle == Unfinished = {}

\* the scan goes back to the probe without adding to the number
ProbeAgain(sc) == [sc EXCEPT !.pc = "probe", !.files = <<>>, !.next = 0]

\* lines 104-105, 118-119, 137: the scan goes on with the next number
Advance(sc) == [sc EXCEPT !.current_num = @ + 1, !.pc = "probe",
                          !.files = <<>>, !.next = 0]

\* the handler ends the scan instead
ScanErrorStops(sc) == [sc EXCEPT !.pc = "stopped"]

\* lines 142-144: any other exception is printed and the scan goes on
ScanError(sc) == Advance(sc)

\* the interrupt leaves the loop at once, whatever the pool is running
InterruptAbandons(pc) == "stopped"

\* lines 139-141: KeyboardInterrupt breaks the loop; raised inside the
\* "with ThreadPoolExecutor" block it first passes the block's end, which
\* waits for the submitted calls
OnInterrupt(pc) == IF pc \in {"submit", "wait"} THEN "drain" ELSE "stopped"

\* lines 96-105: the directory is probed with HEAD
ScanProbe ==
    /\ scan.pc = "probe"
    /\ scan.current_num <= MaxDir
    /\ LET sc == [scan EXCEPT !.probes = Append(@, scan.current_num)]
           r == ShelfAt(scan.current_num)
       IN  scan' = IF r.head = "ok" THEN [sc EXCEPT !.pc = "list"]
                   ELSE IF r.head = "missing" THEN Advance(sc)
                   ELSE ScanError(sc)
    /\ UNCHANGED <<disk, remoteBody, dl, shelf, crawlVars>>

\* lines 108-119: the listing is fetched and its file links are collected
ScanList ==
    /\ scan.pc = "list"
    /\ LET r == ShelfAt(scan.current_num)
           files == DownloadLinks(RootUrl(scan.current_num), r.anchors)
       IN  scan' = IF r.get # "ok" THEN ScanError(scan)
                   ELSE IF files = <<>> THEN Advance(scan)
                   ELSE [scan EXCEPT !.pc = "mkdir", !.files = files]
    /\ UNCHANGED <<disk, remoteBody, dl, shelf, crawlVars>>

\* lines 122-126: os.makedirs makes the directory or raises OSError; then
\* the pool is opened
ScanMakedirs ==
    /\ scan.pc = "mkdir"
    /\ \E made \in BOOLEAN :
          IF made
          THEN /\ disk' = [disk EXCEPT ![DirPath(scan.current_num)] = Directory]
               /\ scan' = [scan EXCEPT !.pc = "submit", !.next = 1]
          ELSE /\ disk' = disk
               /\ scan' = ScanError(scan)
    /\ UNCHANGED <<remoteBody, dl, shelf, crawlVars>>

\* lines 127-130: download_file is submitted for the next file URL
ScanSubmit ==
    /\ scan.pc = "submit"
    /\ LET url == scan.files[scan.next]
           path == LocalPath(scan.current_num, url)
           task == <<scan.current_num, scan.next>>
       IN  /\ dl' = dl @@ (task :> Submitted(url, path))
           /\ scan' = [scan EXCEPT
                          !.next = @ + 1,
                          !.pc = IF scan.next = Len(scan.files) THEN "wait"
                                 ELSE "submit",
                          !.handed = Append(@, [task |-> task, url |-> url,
                                               path |-> path])]
    /\ UNCHANGED <<disk, remoteBody, shelf, crawlVars>>

\* the pool starts a thread for every submitted call
PoolUnbounded(n) == TRUE

\* line 125: the pool of directory n runs at most MAX_WORKERS threads
PoolHasFreeThread(n) == Cardinality(Running(n)) < NumDlWorkers

\* a thread of a directory's pool takes the oldest call submitted to it
PoolTake(t) ==
    /\ scan.pc # "idle"
    /\ dl[t].pc = "queued"
    /\ \A u \in DOMAIN dl : u[1] = t[1] /\ dl[u].pc = "queued" => t[2] <= u[2]
    /\ PoolHasFreeThread(t[1])
    /\ dl' = [dl EXCEPT ![t].pc = "start", ![t].before = disk[dl[t].path],
                        ![t].initial = disk[dl[t].path]]
    /\ UNCHANGED <<disk, remoteBody, shelf, scan, crawlVars>>

\* lines 133-137: every future has completed, the pool is closed, the scan
\* goes on with the next number
ScanCollect ==
    /\ scan.pc = "wait"
    /\ PoolIdle
    /\ scan' = Advance(scan)
    /\ UNCHANGED <<disk, remoteBody, dl, shelf, crawlVars>>

\* the user interrupts the program: KeyboardInterrupt in the main thread
Interrupt ==
    /\ scan.pc \in {"probe", "list", "mkdir", "submit", "wait"}
    /\ ~scan.interrupted
    /\ scan' = [scan EXCEPT !.interrupted = TRUE, !.pc = OnInterrupt(scan.pc)]
    /\ UNCHANGED <<disk, remoteBody, dl, shelf, crawlVars>>

\* the pool's block has ended after the interrupt: the loop is left
ScanDrain ==
    /\ scan.pc = "drain"
    /\ PoolIdle
    /\ scan' = [scan EXCEPT !.pc = "stopped"]
    /\ UNCHANGED <<disk, remoteBody, dl, shelf, crawlVars>>

\* crawl_from_number(base_url, start_num, save_dir) is called; probes and
\* handed are history: the numbers probed and the calls submitted, in order;
\* dl keeps the calls that returned, for their results
InitScan ==
    /\ shelf \in Shelves
    /\ \E start \in 1..MaxDir :
          scan = [pc |-> "probe", start |-> start, current_num |-> start,
                  files |-> <<>>, next |-> 0, interrupted |-> FALSE,
                  probes |-> <<>>, handed |-> <<>>]
    /\ disk = [p \in (1..MaxDir) \X ScanNames |-> NoFile]
    /\ remoteBody = << <<1>> >>
    /\ dl = <<>>
    /\ remote = <<>>
    /\ max_depth = 0
    /\ phase = "idle"
    /\ queue = <<>>
    /\ stack = [w \in Workers |-> <<>>]
    /\ file_structure = <<>>
    /\ visited_folders = {}
    /\ fetches = <<>>
    /\ created = {}
    /\ completed = {}
    /\ run = 1
    /\ firstInventory = <<>>

\* the steps of the scan and of its pool, the interrupt apart
ScanProgress ==
    \/ ScanProbe
    \/ ScanList
    \/ ScanMakedirs
    \/ ScanSubmit
    \/ ScanCollect
    \/ ScanDrain
    \/ \E t \in DOMAIN dl : PoolTake(t)
    \/ \E t \in DOMAIN dl : DlStart(t)
    \/ \E t \in DOMAIN dl : DlGet(t)
    \/ \E t \in DOMAIN dl : DlOpen(t)
    \/ \E t \in DOMAIN dl : DlChunk(t)
    \/ \E t \in DOMAIN dl : DlFinish(t)

NextScan ==
    \/ ScanProbe
    \/ ScanList
    \/ ScanMakedirs
    \/ ScanSubmit
    \/ ScanCollect
    \/ ScanDrain
    \/ Interrupt
    \/ \E t \in DOMAIN dl : PoolTake(t)
    \/ \E t \in DOMAIN dl : DlStart(t)
    \/ \E t \in DOMAIN dl : DlGet(t)
    \/ \E t \in DOMAIN dl : DlOpen(t)
    \/ \E t \in DOMAIN dl : DlChunk(t)
    \/ \E t \in DOMAIN dl : DlFinish(t)

SpecScan == InitScan /\ [][NextScan]_vars

\* the main thread and the pool's threads keep running: a step of the scan
\* or of a call that can be taken is taken in the end (every network call
\* returns or times out); the interrupt may never come
SpecScanFair == SpecScan /\ WF_vars(ScanProgress)

\* the two programs: a run is a crawl (craw.py) or a scan with its
\* downloads (freem_downloader.py)
InitAll == InitCrawl \/ InitScan

NextAll == NextCrawl \/ NextScan

SpecAll == InitAll /\ [][NextAll]_vars

(***************************************************************************)
(* Properties of crawl_from_number                                         *)
(***************************************************************************)
\* the file URLs the listing of directory n gives
ListedFiles(n) == DownloadLinks(RootUrl(n), ShelfAt(n).anchors)

\* the listing of directory n can be fetched and names a file
HasFiles(n) ==
    /\ ShelfAt(n).head = "ok"
    /\ ShelfAt(n).get = "ok"
    /\ ListedFiles(n) # <<>>

\* the URLs of the calls submitted for directory n, in order
HandedUrls(n) ==
    LET h == SelectSeq(scan.handed, LAMBDA c : c.task[1] = n)
    IN  [i \in 1..Len(h) |-> h[i].url]

\* the directories the scan has left behind
Left == {n \in scan.start..(scan.current_num - 1) : n <= MaxDir}

\* one call was submitted per listed file URL of directory n and each of
\* them has returned True or False
BatchComplete(n) ==
    /\ HandedUrls(n) = ListedFiles(n)
    /\ \A i \in 1..Len(ListedFiles(n)) :
          /\ <<n, i>> \in DOMAIN dl
          /\ dl[<<n, i>>].pc = "done"
          /\ dl[<<n, i>>].result \in {"True", "False"}

C12_EveryNumberProbedUnlessInterrupted ==
    /\ [](scan.pc \in {"drain", "stopped"} => scan.interrupted)
    /\ [][scan'.current_num # scan.current_num =>
             /\ scan'.current_num = scan.current_num + 1
             /\ scan'.pc = "probe"
             /\ ~scan'.interrupted]_vars
    /\ \A m \in 1..MaxDir :
          <>(scan.interrupted \/ m < scan.start \/ m \in Range(scan.probes))

\* without an interrupt the scan went past a directory whose batch of
\* downloads completed and past one whose probe did not answer 200
C12_Witness ==
    /\ shelf = ShelfPlain
    /\ ~scan.interrupted
    /\ scan.probes = <<1, 2>>
    /\ scan.current_num = 3
    /\ BatchComplete(1)

\* the URL carries a sort-toggle marker of a directory listing
HasSortMarker(url) == \E m \in SortMarkers : Contains(url, m)

\* C13: a link with a sort-toggle marker is never a file entry: no file of an
\* Inventory record comes from one, and no download_file call is submitted
\* for one
C13_SortLinkNeverAFile ==
    /\ \A k \in DOMAIN file_structure :
          \A i \in DOMAIN file_structure[k].files :
             ~HasSortMarker(file_structure[k].files[i].url)
    /\ scan.pc # "idle" =>
          \A i \in DOMAIN scan.handed : ~HasSortMarker(scan.handed[i].url)

\* C14: once the interrupt is delivered no further number is probed and no
\* further call is submitted, the interrupt cuts no call short, and the loop
\* is left only when every submitted call has returned True or False
C14_InterruptStopsScanAndLetsTransfersFinish ==
    /\ [][scan'.interrupted =>
             /\ scan'.probes = scan.probes
             /\ scan'.handed = scan.handed
             /\ scan'.current_num = scan.current_num]_vars
    /\ [][scan'.interrupted /\ ~scan.interrupted => dl' = dl]_vars
    /\ [](scan.pc = "stopped" =>
             \A i \in DOMAIN scan.handed :
                /\ dl[scan.handed[i].task].pc = "done"
                /\ dl[scan.handed[i].task].result \in {"True", "False"})

\* the interrupt came when two of the three calls of directory 1 had been
\* submitted: the third was never submitted, the two ran to their end and
\* the loop was left
C14_Witness ==
    /\ shelf = ShelfPlain
    /\ scan.pc = "stopped"
    /\ scan.interrupted
    /\ Len(scan.handed) = 2
    /\ scan.probes = <<1>>
    /\ dl[<<1, 1>>].result = "True"
    /\ dl[<<1, 2>>].result = "False"

(***************************************************************************)
(* Further properties of the crawl                                         *)
(***************************************************************************)
\* the URLs crawl_folder was or will be called with: the root folders and
\* the subfolders found in a listing whose record was stored
Called ==
    {RootUrl(i) : i \in 1..(RootLimit - 1)}
        \cup UNION {{it.url : it \in FolderItemsOf(u)} : u \in created}

\* C15: the call for a root folder runs at depth 0 and the call for a
\* subfolder at its parent's depth + 1, which is the depth of its URL below
\* the root; nothing deeper than max_depth is fetched, visited or recorded;
\* and when the crawl has ended every folder called at a depth up to and
\* including max_depth was fetched, unless its folder id was recorded already
C15_DepthBound ==
    /\ \A w \in Workers : \A i \in DOMAIN stack[w] :
          /\ stack[w][i].depth = i - 1
          /\ stack[w][i].depth = UrlDepth(stack[w][i].url)
    /\ \A u \in DOMAIN fetches : fetches[u] > 0 => UrlDepth(u) <= max_depth
    /\ \A u \in visited_folders : UrlDepth(u) <= max_depth
    /\ \A k \in DOMAIN file_structure :
          UrlDepth(file_structure[k].url) <= max_depth
    /\ phase = "done" =>
          \A u \in Called :
             UrlDepth(u) <= max_depth /\ IsDigit(FolderId(u)) =>
                FetchCount(u) >= 1 \/ FolderId(u) \in DOMAIN file_structure

\* with max_depth 0 root folder 3/, at depth exactly max_depth, was fetched
\* and recorded with its subfolder 30 listed, and 3/30/ was neither fetched
\* nor visited nor recorded
C15_Witness ==
    /\ phase = "done"
    /\ remote = TreeScenario
    /\ max_depth = 0
    /\ FetchCount(RootUrl(3)) = 1
    /\ Str(3) \in DOMAIN file_structure
    /\ file_structure[Str(3)].subfolders = <<Str(30)>>
    /\ FetchCount(urljoin(RootUrl(3), <<"3", "0", "/">>)) = 0
    /\ urljoin(RootUrl(3), <<"3", "0", "/">>) \notin visited_folders
    /\ Str(30) \notin DOMAIN file_structure

\* the calls of parse_directory that are at their session.get, whatever the
\* depth of the crawl_folder call that made them
FetchesInProgress ==
    UNION {{<<w, i>> : i \in {j \in DOMAIN stack[w] : stack[w][j].pc = "pd_get"}} :
              w \in Workers}

\* the download_file calls a thread is running
TransfersInProgress == {t \in DOMAIN dl : dl[t].pc \notin {"queued", "done"}}

\* C16: at every moment at most max_workers fetches of the crawl and at most
\* MAX_WORKERS transfers of the directory download are in progress
C16_BoundedConcurrency ==
    /\ Cardinality(FetchesInProgress) <= NumWorkers
    /\ Cardinality(TransfersInProgress) <= NumDlWorkers

\* every thread of the download pool runs a transfer while a further
\* submitted call waits for a free thread
C16_Witness ==
    /\ scan.pc = "wait"
    /\ Cardinality(TransfersInProgress) = NumDlWorkers
    /\ \E t \in DOMAIN dl : dl[t].pc = "queued"

\* C17: every file and every subfolder name of a record was found in the
\* listing of the record's own url
C17_RecordHoldsItsOwnListing ==
    \A k \in DOMAIN file_structure :
       LET rec == file_structure[k]
       IN  /\ \A i \in DOMAIN rec.files :
                 rec.files[i] \in {FileRecord(it) : it \in FileItemsOf(rec.url)}
           /\ \A i \in DOMAIN rec.subfolders :
                 rec.subfolders[i] \in {it.name : it \in FolderItemsOf(rec.url)}

(***************************************************************************)
(* Further properties of download_file                                     *)
(***************************************************************************)
\* C18: over the calls made for a path that held no file before the first
\* of them, a call returns True only if the file then holds the complete
\* remote body
C18_TrueOnlyWithCompleteBody ==
    \A t \in DOMAIN dl :
       (dl[t].initial = NoFile /\ Returned(t) /\ dl[t].result = "True")
          => disk[dl[t].path] = Flatten(remoteBody)

(***************************************************************************)
(* Further properties of crawl_from_number                                 *)
(***************************************************************************)
\* the call has the file of its local path open for writing
Writing(t) == dl[t].pc = "stream"

\* C19: no two download_file calls have the file of one local path open for
\* writing at the same time
C19_OneWriterPerLocalPath ==
    \A t, u \in DOMAIN dl :
       (t # u /\ dl[t].path = dl[u].path) => ~(Writing(t) /\ Writing(u))

\* C20: the numbers are probed in strictly ascending order, so each at most
\* once; current_num never goes down; the calls that have not returned all
\* belong to the directory in hand; and a number is probed only when every
\* call submitted before has returned
C20_AscendingOneAtATime ==
    /\ [](\A i, j \in DOMAIN scan.probes :
             i < j => scan.probes[i] < scan.probes[j])
    /\ [](\A t \in Unfinished : t[1] = scan.current_num)
    /\ [][scan'.current_num >= scan.current_num]_vars
    /\ [][scan'.probes # scan.probes =>
             /\ scan'.probes = Append(scan.probes, scan.current_num)
             /\ \A i \in DOMAIN scan.handed :
                   dl[scan.handed[i].task].pc = "done"]_vars

\* directory 2 was probed after the three transfers of directory 1 had all
\* returned True
C20_Witness ==
    /\ shelf = ShelfPlain
    /\ scan.probes = <<1, 2>>
    /\ Len(scan.handed) = 3
    /\ \A i \in 1..3 : dl[<<1, i>>].pc = "done" /\ dl[<<1, i>>].result = "True"

=============================================================================
